---------------------------- MODULE Spec2Model ----------------------------
(***************************************************************************)
(* Model of tools/gen_command_tree.py: the normalisation of OpenAPI        *)
(* documents and Postman collections into a command tree, and the merge    *)
(* of several trees into one.                                              *)
(*                                                                         *)
(* A Python str is a sequence of one-character strings, so that the        *)
(* string transformations (camel_to_kebab, path_from_raw, the placeholder  *)
(* regex) are computed character by character as the code computes them.   *)
(* Values that the code only copies and compares (base URLs, parameter     *)
(* locations, descriptions) are TLA+ strings.  JSON null / a missing key   *)
(* read through .get() is the string "null".                               *)
(***************************************************************************)
EXTENDS Integers, Sequences, FiniteSets, TLC

(***************************************************************************)
(* Characters                                                              *)
(***************************************************************************)
LowerSeq == <<"a","b","c","d","e","f","g","h","i","j","k","l","m",
              "n","o","p","q","r","s","t","u","v","w","x","y","z">>
UpperSeq == <<"A","B","C","D","E","F","G","H","I","J","K","L","M",
              "N","O","P","Q","R","S","T","U","V","W","X","Y","Z">>
DigitSeq == <<"0","1","2","3","4","5","6","7","8","9">>

Range(s) == { s[i] : i \in DOMAIN s }

LowerChars == Range(LowerSeq)
UpperChars == Range(UpperSeq)
DigitChars == Range(DigitSeq)
AlnumChars == LowerChars \cup UpperChars \cup DigitChars

\* The characters of the model in code-point order (the order Python
\* compares strings by).
AsciiSeq == <<" ", "#", "$", "+", "-", ".", "/">> \o DigitSeq \o <<":", "?">>
            \o UpperSeq \o <<"_">> \o LowerSeq \o <<"{", "}">>

Ord(c) == CHOOSE i \in DOMAIN AsciiSeq : AsciiSeq[i] = c

IndexIn(c, s) == CHOOSE i \in DOMAIN s : s[i] = c

\* str.lower() and str.upper() on one character
LowerChar(c) == IF c \in UpperChars THEN LowerSeq[IndexIn(c, UpperSeq)] ELSE c
UpperChar(c) == IF c \in LowerChars THEN UpperSeq[IndexIn(c, LowerSeq)] ELSE c

Lower(s) == [i \in DOMAIN s |-> LowerChar(s[i])]
Upper(s) == [i \in DOMAIN s |-> UpperChar(s[i])]

(***************************************************************************)
(* String helpers: the str methods the code calls                          *)
(***************************************************************************)
Drop(s, n) == SubSeq(s, n + 1, Len(s))
Take(s, n) == SubSeq(s, 1, n)

StartsWith(s, p) == Len(s) >= Len(p) /\ Take(s, Len(p)) = p

\* str.find(p, start): the least 1-based index >= from of an occurrence,
\* 0 when there is none (Python's -1)
FindFrom(s, p, from) ==
    LET hits == { i \in from..(Len(s) - Len(p) + 1) : SubSeq(s, i, i + Len(p) - 1) = p }
    IN  IF hits = {} THEN 0 ELSE CHOOSE i \in hits : \A j \in hits : i <= j

Find(s, p) == FindFrom(s, p, 1)

Contains(s, p) == Find(s, p) # 0

\* s.split(sep)[0] for a one-character separator
BeforeFirst(s, c) == IF Find(s, <<c>>) = 0 THEN s ELSE Take(s, Find(s, <<c>>) - 1)

\* s.split(c): the list of the pieces between the separators
RECURSIVE Split(_, _)
Split(s, c) ==
    LET i == Find(s, <<c>>)
    IN  IF i = 0 THEN <<s>> ELSE <<Take(s, i - 1)>> \o Split(Drop(s, i), c)

\* sep.join(parts)
RECURSIVE Join(_, _)
Join(parts, sep) ==
    IF parts = <<>> THEN <<>>
    ELSE IF Len(parts) = 1 THEN parts[1]
    ELSE parts[1] \o sep \o Join(Tail(parts), sep)

RECURSIVE LStrip(_, _)
LStrip(s, c) == IF s # <<>> /\ s[1] = c THEN LStrip(Tail(s), c) ELSE s

RECURSIVE RStrip(_, _)
RStrip(s, c) ==
    IF s # <<>> /\ s[Len(s)] = c THEN RStrip(Take(s, Len(s) - 1), c) ELSE s

Strip(s, c) == RStrip(LStrip(s, c), c)

\* str(n) for a natural number
RECURSIVE IntToStr(_)
IntToStr(n) ==
    IF n < 10 THEN <<DigitSeq[n + 1]>>
    ELSE IntToStr(n \div 10) \o <<DigitSeq[(n % 10) + 1]>>

\* JSON null, or a key that .get() does not find, for the values the code
\* only copies and compares; Truthy is Python's truth value of such a value
Null == "null"
Truthy(x) == x # Null /\ x # ""

\* lexicographic order on strings by code point
RECURSIVE StrLess(_, _)
StrLess(a, b) ==
    IF b = <<>> THEN FALSE
    ELSE IF a = <<>> THEN TRUE
    ELSE IF a[1] = b[1] THEN StrLess(Tail(a), Tail(b))
    ELSE Ord(a[1]) < Ord(b[1])

(***************************************************************************)
(* Name Normalizer                                                         *)
(***************************************************************************)
\* value.replace("/", "-").replace("_", "-").replace(" ", "-")
ReplaceSeparators(s) ==
    [i \in DOMAIN s |-> IF s[i] \in {"/", "_", " "} THEN "-" ELSE s[i]]

\* CAMEL_RE.sub(r"\1-\2", value): the non-overlapping matches of
\* ([a-z0-9])([A-Z]), scanned from the left
RECURSIVE CamelSub(_)
CamelSub(s) ==
    IF Len(s) < 2 THEN s
    ELSE IF s[1] \in (LowerChars \cup DigitChars) /\ s[2] \in UpperChars
         THEN <<s[1], "-", s[2]>> \o CamelSub(Drop(s, 2))
         ELSE <<s[1]>> \o CamelSub(Tail(s))

\* re.sub(r"[^a-zA-Z0-9-]+", "-", value): every maximal run of characters
\* outside the class becomes one hyphen
IsOther(c) == c \notin AlnumChars /\ c # "-"

RECURSIVE SubOtherRuns(_)
SubOtherRuns(s) ==
    IF s = <<>> THEN <<>>
    ELSE IF IsOther(s[1])
         THEN IF Len(s) >= 2 /\ IsOther(s[2])
              THEN SubOtherRuns(Tail(s))
              ELSE <<"-">> \o SubOtherRuns(Tail(s))
         ELSE <<s[1]>> \o SubOtherRuns(Tail(s))

\* re.sub(r"-+", "-", value)
RECURSIVE CollapseHyphens(_)
CollapseHyphens(s) ==
    IF s = <<>> THEN <<>>
    ELSE IF s[1] = "-" /\ Len(s) >= 2 /\ s[2] = "-"
         THEN CollapseHyphens(Tail(s))
         ELSE <<s[1]>> \o CollapseHyphens(Tail(s))

\* camel_to_kebab without its .strip("-")
camel_to_kebab_unstripped(value) ==
    Lower(CollapseHyphens(SubOtherRuns(CamelSub(ReplaceSeparators(value)))))

camel_to_kebab(value) ==
    Lower(Strip(CollapseHyphens(SubOtherRuns(CamelSub(ReplaceSeparators(value)))), "-"))

Call == <<"c", "a", "l", "l">>

normalize_op_name(value) ==
    LET name == camel_to_kebab(value)
    IN  IF name # <<>> THEN name ELSE Call

(***************************************************************************)
(* Path Resolver                                                           *)
(***************************************************************************)
SchemeChars == AlnumChars \cup {"+", "-", "."}

\* urllib.parse.urlparse(raw).path, for the characters of AsciiSeq (none of
\* which is a control character, a bracket or a semicolon): leading spaces
\* are stripped, a scheme is split off at the first ':' when the text before
\* it starts with a letter and holds only scheme characters, a "//" then
\* starts a network location that runs to the next '/', '?' or '#', and a
\* fragment is cut at the first '#'.
UrlPath(raw) ==
    LET url0 == LStrip(raw, " ")
        i    == Find(url0, <<":">>)
        url1 == IF i > 1 /\ url0[1] \in (LowerChars \cup UpperChars)
                   /\ \A k \in 1..(i - 1) : url0[k] \in SchemeChars
                THEN Drop(url0, i) ELSE url0
        ends == { k \in 3..Len(url1) : url1[k] \in {"/", "?", "#"} }
        url2 == IF StartsWith(url1, <<"/", "/">>)
                THEN IF ends = {} THEN <<>>
                     ELSE Drop(url1, (CHOOSE k \in ends : \A j \in ends : k <= j) - 1)
                ELSE url1
    IN  BeforeFirst(BeforeFirst(url2, "#"), "?")

path_from_raw(raw0) ==
    LET raw == BeforeFirst(raw0, "?")
        idx == Find(raw, <<"}", "}">>)
        tail == Drop(raw, idx + 1)
    IN  IF Contains(raw, <<":", "/", "/">>)
        THEN (IF UrlPath(raw) # <<>> THEN UrlPath(raw) ELSE <<"/">>)
        ELSE IF StartsWith(raw, <<"/">>) THEN raw
        ELSE IF StartsWith(raw, <<"{", "{">>) /\ idx # 0
        THEN (IF tail = <<>> THEN <<"/">>
              ELSE IF ~StartsWith(tail, <<"/">>) THEN <<"/">> \o tail
              ELSE tail)
        ELSE <<"/">> \o LStrip(raw, "/")

\* A request's url is a plain string [str |-> s] or an object
\* [path |-> segments, raw |-> s, variable |-> ..., query |-> ...]; a missing
\* url is the empty string (request.get("url") or "").
IsStrUrl(url) == "str" \in DOMAIN url

build_path(url) ==
    IF IsStrUrl(url) THEN path_from_raw(url.str)
    ELSE IF url.path # <<>> THEN <<"/">> \o Join(url.path, <<"/">>)
    ELSE IF url.raw # <<>> THEN path_from_raw(url.raw)
    ELSE <<"/">>

\* One match of \{([^}]+)\}|:([A-Za-z0-9_]+)|\{\{([^}]+)\}\} at the head of
\* s: [len |-> characters consumed, name |-> the group], len = 0 for no
\* match.  The alternatives are tried in order.
WordChars == AlnumChars \cup {"_"}

RECURSIVE RunLen(_, _)
RunLen(s, class) ==
    IF s # <<>> /\ s[1] \in class THEN 1 + RunLen(Tail(s), class) ELSE 0

MatchBrace(s) ==
    LET j == FindFrom(s, <<"}">>, 2)
    IN  IF Len(s) >= 3 /\ s[1] = "{" /\ j >= 3
        THEN [len |-> j, name |-> SubSeq(s, 2, j - 1)]
        ELSE [len |-> 0, name |-> <<>>]

MatchColon(s) ==
    LET n == RunLen(Tail(s), WordChars)
    IN  IF s[1] = ":" /\ n >= 1
        THEN [len |-> n + 1, name |-> SubSeq(s, 2, n + 1)]
        ELSE [len |-> 0, name |-> <<>>]

MatchDoubleBrace(s) ==
    LET j == FindFrom(s, <<"}">>, 3)
    IN  IF StartsWith(s, <<"{", "{">>) /\ j >= 4 /\ Len(s) > j /\ s[j + 1] = "}"
        THEN [len |-> j + 1, name |-> SubSeq(s, 3, j - 1)]
        ELSE [len |-> 0, name |-> <<>>]

MatchAt(s) ==
    IF MatchBrace(s).len > 0 THEN MatchBrace(s)
    ELSE IF MatchColon(s).len > 0 THEN MatchColon(s)
    ELSE MatchDoubleBrace(s)

RECURSIVE extract_path_params(_)
extract_path_params(path) ==
    IF path = <<>> THEN <<>>
    ELSE LET m == MatchAt(path)
         IN  IF m.len > 0
             THEN (IF m.name # <<>> THEN <<m.name>> ELSE <<>>)
                  \o extract_path_params(Drop(path, m.len))
             ELSE extract_path_params(Tail(path))

Root == <<"r", "o", "o", "t">>

\* next((s for s in path.split("/") if s), "root")
FirstSegment(path) ==
    LET parts == Split(path, "/")
        full  == { i \in DOMAIN parts : parts[i] # <<>> }
    IN  IF full = {} THEN Root
        ELSE parts[CHOOSE i \in full : \A j \in full : i <= j]

derive_resource(parents, path) ==
    IF parents # <<>> /\ parents[1] # <<>>
    THEN camel_to_kebab(parents[1])
    ELSE camel_to_kebab(FirstSegment(path))

\* A parameter of an operation
Param(name, location, required) ==
    [name |-> name, flag |-> camel_to_kebab(name),
     location |-> location, required |-> required]

\* params[(location, name)] = param on an insertion-ordered dict, kept as the
\* list of its values: a key already present keeps its place
PutParam(params, p) ==
    LET same == { i \in DOMAIN params :
                    params[i].location = p.location /\ params[i].name = p.name }
    IN  IF same = {} THEN Append(params, p)
        ELSE [params EXCEPT ![CHOOSE i \in same : TRUE] = p]

RECURSIVE PutPathParams(_, _)
PutPathParams(params, names) ==
    IF names = <<>> THEN params
    ELSE PutPathParams(PutParam(params, Param(names[1], "path", TRUE)), Tail(names))

\* for var in url.get("variable") or []: a variable is [key |-> s]
RECURSIVE PutVariables(_, _)
PutVariables(params, variable) ==
    IF variable = <<>> THEN params
    ELSE PutVariables(
            IF variable[1].key # <<>>
            THEN PutParam(params, Param(variable[1].key, "path", TRUE))
            ELSE params,
            Tail(variable))

\* for query in url.get("query") or []: an entry is [key |-> s, disabled |-> b]
RECURSIVE PutQueries(_, _)
PutQueries(params, query) ==
    IF query = <<>> THEN params
    ELSE PutQueries(
            IF ~query[1].disabled /\ query[1].key # <<>>
            THEN PutParam(params, Param(query[1].key, "query", FALSE))
            ELSE params,
            Tail(query))

collect_params(url, path) ==
    LET fromPath == PutPathParams(<<>>, extract_path_params(path))
    IN  IF IsStrUrl(url) THEN fromPath
        ELSE PutQueries(PutVariables(fromPath, url.variable), url.query)

(***************************************************************************)
(* Documents                                                               *)
(*                                                                         *)
(* A parsed JSON document is a record holding its top-level keys:          *)
(*   openapi, swagger : version markers                                    *)
(*   paths    : the list of [path |-> s, methods |-> list of               *)
(*              [method |-> key, details |-> operation object]] in the     *)
(*              order of the JSON object (keys distinct)                   *)
(*   servers  : the list of [url |-> u]                                    *)
(*   info     : [schema |-> s]                                             *)
(*   item     : the list of items; an item with an "item" key is a folder  *)
(*   variable : the list of [key |-> s, value |-> u]                       *)
(* A list or string that .get() would not find is empty.                   *)
(***************************************************************************)
GetOr(d, k, default) == IF k \in DOMAIN d THEN d[k] ELSE default

DefaultBaseUrl == "https://api.xendit.co"

is_openapi(spec) ==
    "openapi" \in DOMAIN spec \/ "swagger" \in DOMAIN spec \/ "paths" \in DOMAIN spec

Postman == <<"p", "o", "s", "t", "m", "a", "n">>

is_postman(spec) ==
    LET info   == GetOr(spec, "info", [schema |-> <<>>])
        schema == info.schema
    IN  "item" \in DOMAIN spec /\ Contains(schema, Postman)

openapi_base_url(spec) ==
    LET servers == GetOr(spec, "servers", <<>>)
    IN  IF servers # <<>> /\ Truthy(servers[1].url) THEN servers[1].url
        ELSE DefaultBaseUrl

BaseUrlKeys == { <<"b","a","s","e","_","u","r","l">>, <<"b","a","s","e","u","r","l">>,
                 <<"a","p","i","_","u","r","l">>, <<"a","p","i","u","r","l">> }

RECURSIVE FirstBaseUrl(_)
FirstBaseUrl(variable) ==
    IF variable = <<>> THEN DefaultBaseUrl
    ELSE IF Lower(variable[1].key) \in BaseUrlKeys /\ Truthy(variable[1].value)
    THEN variable[1].value
    ELSE FirstBaseUrl(Tail(variable))

postman_base_url(spec) == FirstBaseUrl(GetOr(spec, "variable", <<>>))

(***************************************************************************)
(* The tree under construction                                             *)
(***************************************************************************)
\* resources.setdefault(resource, {"name": resource, "ops": []})["ops"].append(op)
\* on the insertion-ordered dict `resources`, kept as the list of its values
add_op(resources, resource, op) ==
    LET at == { i \in DOMAIN resources : resources[i].name = resource }
    IN  IF at = {}
        THEN Append(resources, [name |-> resource, ops |-> <<op>>])
        ELSE LET i == CHOOSE i \in at : TRUE
             IN  [resources EXCEPT ![i].ops = Append(@, op)]

\* seen.setdefault(resource, set()) on a dict of sets
SetDefault(seen, resource, default) ==
    IF resource \in DOMAIN seen THEN seen ELSE seen @@ (resource :> default)

\* sorted(resources.values(), key=lambda r: r["name"]): a stable insertion sort
RECURSIVE InsertSorted(_, _)
InsertSorted(sorted, r) ==
    IF sorted = <<>> THEN <<r>>
    ELSE IF StrLess(r.name, sorted[1].name) THEN <<r>> \o sorted
    ELSE <<sorted[1]>> \o InsertSorted(Tail(sorted), r)

RECURSIVE SortByName(_)
SortByName(resources) ==
    IF resources = <<>> THEN <<>>
    ELSE InsertSorted(SortByName(Take(resources, Len(resources) - 1)),
                      resources[Len(resources)])

Tree(base_url, resources) ==
    [version |-> 1, base_url |-> base_url, resources |-> SortByName(resources)]

Hyphen == <<"-">>

(***************************************************************************)
(* OpenAPI Importer                                                        *)
(***************************************************************************)
Verbs == { <<"g","e","t">>, <<"p","o","s","t">>, <<"p","u","t">>,
           <<"p","a","t","c","h">>, <<"d","e","l","e","t","e">>,
           <<"h","e","a","d">>, <<"o","p","t","i","o","n","s">> }

\* while op_name in used: op_name = normalize_op_name(f"{op_name}-{idx}"); idx += 1
RECURSIVE OpenApiNumbered(_, _, _)
OpenApiNumbered(op_name, idx, used) ==
    IF op_name \in used
    THEN OpenApiNumbered(normalize_op_name(op_name \o Hyphen \o IntToStr(idx)),
                         idx + 1, used)
    ELSE op_name

OpenApiUnique(op_name, method, used) ==
    OpenApiNumbered(
        IF op_name \in used
        THEN normalize_op_name(op_name \o Hyphen \o method) ELSE op_name,
        2, used)

\* the declared parameters kept: a name, and a location of path or query
RECURSIVE OpenApiParams(_)
OpenApiParams(parameters) ==
    IF parameters = <<>> THEN <<>>
    ELSE LET param == parameters[1]
         IN  (IF param.name = <<>> \/ param.in \notin {"path", "query"}
              THEN <<>>
              ELSE <<Param(param.name, param.in,
                           param.required \/ param.in = "path")>>)
             \o OpenApiParams(Tail(parameters))

\* One (path, method, details) entry: the body of the inner loop.  st is
\* [resources, seen, raised]; raised records the IndexError of
\* path.split("/")[1] on a path without '/', which ends the run.
OpenApiOp(st, path, method, details) ==
    IF st.raised \/ Lower(method) \notin Verbs THEN st
    ELSE IF details.tags = <<>> /\ Len(Split(path, "/")) < 2
    THEN [st EXCEPT !.raised = TRUE]
    ELSE
    LET segment  == Split(path, "/")[2]
        resource == IF details.tags # <<>> THEN camel_to_kebab(details.tags[1])
                    ELSE camel_to_kebab(IF segment # <<>> THEN segment ELSE Root)
        op_name0 == normalize_op_name(
                        IF details.operationId # <<>> THEN details.operationId
                        ELSE method \o Hyphen \o path)
        seen1    == SetDefault(st.seen, resource, {})
        op_name  == OpenApiUnique(op_name0, method, seen1[resource])
        op       == [name        |-> op_name,
                     method      |-> Upper(method),
                     path        |-> path,
                     description |-> IF Truthy(details.summary) THEN details.summary
                                     ELSE details.description,
                     params      |-> OpenApiParams(details.parameters),
                     has_body    |-> details.requestBody]
    IN  [resources |-> add_op(st.resources, resource, op),
         seen      |-> [seen1 EXCEPT ![resource] = @ \cup {op_name}],
         raised    |-> FALSE]

RECURSIVE OpenApiMethods(_, _, _)
OpenApiMethods(st, path, methods) ==
    IF methods = <<>> THEN st
    ELSE OpenApiMethods(OpenApiOp(st, path, methods[1].method, methods[1].details),
                        path, Tail(methods))

RECURSIVE OpenApiPaths(_, _)
OpenApiPaths(st, paths) ==
    IF paths = <<>> THEN st
    ELSE OpenApiPaths(OpenApiMethods(st, paths[1].path, paths[1].methods), Tail(paths))

EmptyImport == [resources |-> <<>>, seen |-> <<>>, raised |-> FALSE]

\* [raised |-> the import raised, tree |-> the tree returned otherwise]
build_from_openapi(spec) ==
    LET st == OpenApiPaths(EmptyImport, GetOr(spec, "paths", <<>>))
    IN  [raised |-> st.raised,
         tree   |-> Tree(openapi_base_url(spec), st.resources)]

(***************************************************************************)
(* Postman Importer                                                        *)
(*                                                                         *)
(* A folder is [name |-> s, item |-> items]; a request item is             *)
(* [name |-> s, description |-> d, request |-> [method |-> s, url |-> url, *)
(* mode |-> the body's mode, description |-> d]].                          *)
(***************************************************************************)
BodyMethods == { <<"P","O","S","T">>, <<"P","U","T">>, <<"P","A","T","C","H">> }

Get == <<"G", "E", "T">>

\* the numeric retry tried once (an `if` for the `while`)
NumberedOnce(candidate, name, idx, used) ==
    IF candidate \in used
    THEN normalize_op_name(name \o Hyphen \o IntToStr(idx))
    ELSE candidate

\* while candidate in used: candidate = normalize_op_name(f"{name}-{idx}"); idx += 1
RECURSIVE Numbered(_, _, _, _)
Numbered(candidate, name, idx, used) ==
    IF candidate \in used
    THEN Numbered(normalize_op_name(name \o Hyphen \o IntToStr(idx)), name, idx + 1, used)
    ELSE candidate

\* the name dedupe() returns for `name` when the names in `used` are taken
dedupe(used, name, method) ==
    Numbered(IF name \in used
             THEN normalize_op_name(name \o Hyphen \o Lower(method)) ELSE name,
             name, 2, used)

\* has_body without the test of the method
PostmanHasBodyAnyVerb(method, mode) == mode \notin {Null, "none"}

\* method in {"POST", "PUT", "PATCH"} and body.get("mode") not in (None, "none")
PostmanHasBody(method, mode) == method \in BodyMethods /\ mode \notin {Null, "none"}

\* One request item: the body of walk's loop after the folder test
PostmanRequest(st, item, parents) ==
    LET request  == item.request
        method   == Upper(IF request.method # <<>> THEN request.method ELSE Get)
        url      == request.url
        path     == build_path(url)
        resource == derive_resource(parents, path)
        name0    == normalize_op_name(
                        IF item.name # <<>> THEN item.name
                        ELSE method \o Hyphen \o path)
        seen1    == SetDefault(st.seen, resource, {})
        name     == dedupe(seen1[resource], name0, method)
        op       == [name        |-> name,
                     method      |-> method,
                     path        |-> path,
                     description |-> IF Truthy(item.description) THEN item.description
                                     ELSE request.description,
                     params      |-> collect_params(url, path),
                     has_body    |-> PostmanHasBody(method, request.mode)]
    IN  [resources |-> add_op(st.resources, resource, op),
         seen      |-> [seen1 EXCEPT ![resource] = @ \cup {name}],
         raised    |-> FALSE]

RECURSIVE walk(_, _, _)
walk(st, items, parents) ==
    IF items = <<>> THEN st
    ELSE LET item == items[1]
         IN  walk(IF "item" \in DOMAIN item
                  THEN walk(st, item.item, Append(parents, item.name))
                  ELSE PostmanRequest(st, item, parents),
                  Tail(items), parents)

build_from_postman(spec) ==
    Tree(postman_base_url(spec),
         walk(EmptyImport, GetOr(spec, "item", <<>>), <<>>).resources)

(***************************************************************************)
(* Tree Merger                                                             *)
(***************************************************************************)
\* [tree.get("base_url") for tree in trees if tree.get("base_url")], then
\* dict.fromkeys: the distinct URLs in first-seen order
RECURSIVE UniqueUrls(_, _)
UniqueUrls(trees, acc) ==
    IF trees = <<>> THEN acc
    ELSE UniqueUrls(Tail(trees),
                    IF Truthy(trees[1].base_url) /\ trees[1].base_url \notin Range(acc)
                    THEN Append(acc, trees[1].base_url) ELSE acc)

unique_urls(trees) == UniqueUrls(trees, <<>>)

\* the base URL without the preference for the default host
MergedBaseUrlFirstSeen(trees) ==
    LET urls == unique_urls(trees)
    IN  IF urls = <<>> THEN DefaultBaseUrl ELSE urls[1]

MergedBaseUrl(trees) ==
    LET urls == unique_urls(trees)
    IN  IF urls = <<>> THEN DefaultBaseUrl
        ELSE IF Len(urls) = 1 THEN urls[1]
        ELSE IF DefaultBaseUrl \in Range(urls) THEN DefaultBaseUrl
        ELSE urls[1]

\* what is printed to stderr: the candidates and the URL used, or nothing
NoWarning == [urls |-> <<>>, using |-> Null]

MergeWarning(trees) ==
    IF Len(unique_urls(trees)) >= 2
    THEN [urls |-> unique_urls(trees), using |-> MergedBaseUrl(trees)]
    ELSE NoWarning

\* The state of the merge loops: the output resources (an insertion-ordered
\* dict kept as the list of its values) and the two registries.
EmptyMerge == [resources |-> <<>>, seen_keys |-> <<>>, seen_names |-> <<>>]

OpsOf(resources, name) ==
    LET at == { i \in DOMAIN resources : resources[i].name = name }
    IN  IF at = {} THEN <<>> ELSE resources[CHOOSE i \in at : TRUE].ops

\* the three setdefault calls at the head of the loop over a tree's resources
MergeRes(st, name) ==
    [resources  |-> IF \E i \in DOMAIN st.resources : st.resources[i].name = name
                    THEN st.resources
                    ELSE Append(st.resources, [name |-> name, ops |-> <<>>]),
     seen_keys  |-> SetDefault(st.seen_keys, name, {}),
     seen_names |-> SetDefault(st.seen_names, name,
                        { op.name : op \in Range(OpsOf(st.resources, name)) })]

\* the name an accepted operation is inserted under
MergedName(used_names, op) ==
    IF op.name \in used_names
    THEN Numbered(normalize_op_name(op.name \o Hyphen \o Lower(op.method)),
                  op.name, 2, used_names)
    ELSE op.name

\* the innermost loop's body without the test of used_keys
MergeOpNoKeyTest(st, res, op) ==
    LET key  == <<op.method, op.path>>
        name == MergedName(st.seen_names[res], op)
        at   == CHOOSE i \in DOMAIN st.resources : st.resources[i].name = res
    IN  [resources  |-> [st.resources EXCEPT
                            ![at].ops = Append(@, [op EXCEPT !.name = name])],
         seen_keys  |-> [st.seen_keys EXCEPT ![res] = @ \cup {key}],
         seen_names |-> [st.seen_names EXCEPT ![res] = @ \cup {name}]]

\* One operation of resource `res`: the body of the innermost loop
MergeOp(st, res, op) ==
    LET key  == <<op.method, op.path>>
        name == MergedName(st.seen_names[res], op)
        at   == CHOOSE i \in DOMAIN st.resources : st.resources[i].name = res
    IN  IF key \in st.seen_keys[res] THEN st
        ELSE [resources  |-> [st.resources EXCEPT
                                 ![at].ops = Append(@, [op EXCEPT !.name = name])],
              seen_keys  |-> [st.seen_keys EXCEPT ![res] = @ \cup {key}],
              seen_names |-> [st.seen_names EXCEPT ![res] = @ \cup {name}]]

\* The iterations of the nested loops over `trees`, in order: <<"res", name>>
\* enters a resource, <<"op", name, op>> is one operation of it.
RECURSIVE OpItems(_, _)
OpItems(name, ops) ==
    IF ops = <<>> THEN <<>>
    ELSE <<[kind |-> "op", res |-> name, op |-> ops[1]]>> \o OpItems(name, Tail(ops))

RECURSIVE ResItems(_)
ResItems(resources) ==
    IF resources = <<>> THEN <<>>
    ELSE <<[kind |-> "res", res |-> resources[1].name]>>
         \o OpItems(resources[1].name, resources[1].ops)
         \o ResItems(Tail(resources))

RECURSIVE MergeItems(_)
MergeItems(trees) ==
    IF trees = <<>> THEN <<>>
    ELSE ResItems(trees[1].resources) \o MergeItems(Tail(trees))

MergeStep(st, it) ==
    IF it.kind = "res" THEN MergeRes(st, it.res) ELSE MergeOp(st, it.res, it.op)

RECURSIVE MergeAll(_, _)
MergeAll(st, items) ==
    IF items = <<>> THEN st ELSE MergeAll(MergeStep(st, items[1]), Tail(items))

merge_trees(trees) ==
    Tree(MergedBaseUrl(trees), MergeAll(EmptyMerge, MergeItems(trees)).resources)

(***************************************************************************)
(* Sample documents: the contents of the files named by --spec             *)
(***************************************************************************)
S_x   == <<"x">>
S_Inv == <<"I", "n", "v">>
S_id  == <<"i", "d">>
S_get == <<"g", "e", "t">>
P_a   == <<"/", "a">>
P_b   == <<"/", "b">>
P_c   == <<"/", "c">>
P_d   == <<"/", "d">>
SandboxUrl == "https://sandbox.xendit.co"
StagingUrl == "https://staging.xendit.co"

\* an OpenAPI operation object
Details(tags, operationId, parameters, requestBody) ==
    [tags |-> tags, operationId |-> operationId, parameters |-> parameters,
     requestBody |-> requestBody, summary |-> Null, description |-> Null]

PathItem(path, methods) == [path |-> path, methods |-> methods]
Method(method, details) == [method |-> method, details |-> details]
Declared(name, in) == [name |-> name, in |-> in, required |-> FALSE]

\* GET operations of one tag that share an operationId
InvGet(path) == PathItem(path, <<Method(S_get, Details(<<S_Inv>>, S_x, <<>>, FALSE))>>)

OpenApiSamples ==
    { \* operations that collide on their names
      [openapi |-> "3.0", paths |-> <<InvGet(P_a)>>],
      [openapi |-> "3.0", paths |-> <<InvGet(P_a), InvGet(P_b)>>],
      [openapi |-> "3.0", paths |-> <<InvGet(P_a), InvGet(P_b), InvGet(P_c)>>],
      [swagger |-> "2.0", paths |-> <<InvGet(P_d)>>,
       servers |-> <<[url |-> SandboxUrl]>>],
      \* placeholders and declared parameters; no tags, no operationId
      [paths |-> <<
          PathItem(<<"/","v","/","{","i","d","}">>, <<
              Method(S_get, Details(<<>>, <<>>, <<>>, FALSE)),
              Method(<<"p","u","t">>,
                     Details(<<>>, <<>>,
                             <<Declared(S_id, "path"), Declared(S_id, "path"),
                               Declared(<<"q">>, "query"), Declared(<<"h">>, "header")>>,
                             TRUE))>>)>>],
      \* request bodies on several verbs; a key that is no verb; GET in two cases
      [openapi |-> "3.0", paths |-> <<
          PathItem(<<"/","w">>, <<
              Method(S_get, Details(<<>>, <<>>, <<>>, TRUE)),
              Method(<<"p","o","s","t">>, Details(<<>>, <<>>, <<>>, TRUE)),
              Method(<<"G","E","T">>, Details(<<>>, <<>>, <<>>, FALSE)),
              Method(<<"t","r","a","c","e">>, Details(<<>>, <<>>, <<>>, TRUE))>>)>>],
      \* path keys without a leading '/', or with an empty first segment
      [openapi |-> "3.0", paths |-> <<
          PathItem(<<"a","/","b">>, <<
              Method(<<"d","e","l","e","t","e">>, Details(<<S_Inv>>, <<>>, <<>>, FALSE)),
              Method(S_get, Details(<<>>, <<>>, <<>>, FALSE))>>),
          PathItem(<<"/","/","a">>, <<
              Method(S_get, Details(<<>>, <<>>, <<>>, FALSE))>>)>>],
      \* a path key without any '/', and no tags
      [openapi |-> "3.0", paths |-> <<
          PathItem(<<"a">>, <<Method(S_get, Details(<<>>, S_x, <<>>, FALSE))>>)>>] }

\* a Postman request item, a folder, and the two shapes of a url
Request(name, method, url, mode) ==
    [name |-> name, description |-> Null,
     request |-> [method |-> method, url |-> url, mode |-> mode, description |-> Null]]

Folder(name, items) == [name |-> name, item |-> items]

StrUrl(s) == [str |-> s]
NoUrl == StrUrl(<<>>)
ObjUrl(path, raw, variable, query) ==
    [path |-> path, raw |-> raw, variable |-> variable, query |-> query]

PostmanSchema == [schema |-> <<"g","e","t","p","o","s","t","m","a","n","/","v","2">>]
S_GET  == <<"G", "E", "T">>
S_POST == <<"P", "O", "S", "T">>
Base(path) == <<"{", "{", "b", "}", "}">> \o path

\* GET requests of one folder that share a name
InvRequest(path) == Request(S_x, S_GET, StrUrl(Base(path)), Null)

PostmanSamples ==
    { \* requests that collide on their names
      [info |-> PostmanSchema, item |-> <<Folder(S_Inv, <<InvRequest(P_a)>>)>>],
      [info |-> PostmanSchema,
       item |-> <<Folder(S_Inv, <<InvRequest(P_a), InvRequest(P_b)>>)>>],
      [info |-> PostmanSchema,
       item |-> <<Folder(S_Inv, <<InvRequest(P_a), InvRequest(P_b), InvRequest(P_c)>>)>>],
      [info |-> PostmanSchema, item |-> <<Folder(S_Inv, <<InvRequest(P_d)>>)>>,
       variable |-> <<[key |-> <<"t","o","k","e","n">>, value |-> "secret"],
                      [key |-> <<"b","a","s","e","U","r","l">>, value |-> StagingUrl]>>],
      \* the three placeholder syntaxes, and a structured url
      [info |-> PostmanSchema, item |-> <<
          Request(<<>>, S_GET, StrUrl(Base(<<"/","v","/",":","i","d">>)), Null),
          Request(<<>>, S_POST, StrUrl(Base(<<"/","v","/","{","{","i","d","}","}">>)), "raw"),
          Request(<<"u">>, <<"P","U","T">>,
                  ObjUrl(<<<<"v">>, <<"{","i","d","}">>>>,
                         Base(<<"/","v","/","{","i","d","}","?","q","=","1">>),
                         <<[key |-> S_id], [key |-> <<"k">>]>>,
                         <<[key |-> <<"q">>, disabled |-> FALSE],
                           [key |-> <<"q">>, disabled |-> FALSE],
                           [key |-> <<"z">>, disabled |-> TRUE]>>),
                  "none")>>],
      \* methods and bodies; a url whose scheme and host are variables
      [info |-> PostmanSchema, item |-> <<
          Request(<<"t">>, <<"T","R","A","C","E">>, StrUrl(Base(<<"/","w">>)), "raw"),
          Request(<<"g">>, S_GET, StrUrl(Base(<<"/","w">>)), "raw"),
          Request(<<"d">>, <<>>, NoUrl, Null),
          Request(<<"p">>, <<"p","o","s","t">>,
                  StrUrl(<<"{","{","s","}","}",":","/","/","{","{","h","}","}","/","a">>),
                  "raw")>>],
      \* nested folders; two requests of one method and path
      [info |-> PostmanSchema, item |-> <<
          Folder(S_Inv, <<
              Folder(<<"S","u","b">>, <<Request(S_x, S_GET, StrUrl(Base(P_a)), Null)>>),
              Request(<<"y">>, S_GET, StrUrl(Base(P_a)), Null),
              Request(S_x, S_POST, ObjUrl(<<>>, Base(P_a), <<>>, <<>>), "raw")>>)>>] }

\* a document with the markers of both formats
BothSamples ==
    { [openapi |-> "3.0", paths |-> <<InvGet(P_a)>>, info |-> PostmanSchema,
       item |-> <<Folder(S_Inv, <<Request(<<"y">>, S_POST, StrUrl(Base(P_b)), "raw")>>)>>] }

\* documents of neither format
OtherSamples ==
    { [info |-> [schema |-> <<"d","r","a","f","t","-","0","7">>],
       item |-> <<InvRequest(P_a)>>],
      [info |-> PostmanSchema] }

SampleSpecs == OpenApiSamples \cup PostmanSamples \cup BothSamples \cup OtherSamples

MaxSpecs == 2

\* the documents named on the command line, in order (at least one: with no
\* --spec the two default files are read)
SpecLists == UNION { [1..n -> SampleSpecs] : n \in 1..MaxSpecs }

(***************************************************************************)
(* main: the run over the documents                                        *)
(***************************************************************************)
VARIABLES
    specs,       \* the documents of spec_paths, in order
    loaded,      \* how many of them the loop has read
    pc,          \* "load", "merge", "done"; "failed": SystemExit on an
                 \* unsupported format; "raised": an uncaught exception
    trees,       \* the list `trees`
    base_url,    \* merge_trees: the base URL chosen
    warning,     \* what merge_trees printed to stderr
    items,       \* merge_trees: the loop iterations still to run
    resources,   \* merge_trees: the output resources
    seen_keys,   \* merge_trees: resource -> (method, path) pairs accepted
    seen_names,  \* merge_trees: resource -> operation names used
    out,         \* the output file: <<>> until written, then <<tree>>
    value,       \* normalize_op_name: the argument
    result,      \* normalize_op_name: <<>>, then <<the string returned>>
    arrivals,       \* the (derived name, verb) pairs still to arrive in one resource
    openapi_used,   \* build_from_openapi: seen[resource]
    openapi_names,  \* build_from_openapi: the names given, in order
    postman_used,   \* build_from_postman: seen[resource]
    postman_names   \* build_from_postman: the names given, in order

vars == <<specs, loaded, pc, trees, base_url, warning, items, resources,
          seen_keys, seen_names, out, value, result,
          arrivals, openapi_used, openapi_names, postman_used, postman_names>>

mergeVars == <<base_url, warning, items, resources, seen_keys, seen_names>>
normVars == <<value, result>>
nameVars == <<arrivals, openapi_used, openapi_names, postman_used, postman_names>>

MergeIdle ==
    /\ base_url = Null
    /\ warning = NoWarning
    /\ items = <<>>
    /\ resources = <<>>
    /\ seen_keys = <<>>
    /\ seen_names = <<>>

NamesIdle ==
    /\ openapi_used = {}
    /\ openapi_names = <<>>
    /\ postman_used = {}
    /\ postman_names = <<>>

Init ==
    /\ specs \in SpecLists
    /\ loaded = 0
    /\ pc = "load"
    /\ trees = <<>>
    /\ MergeIdle
    /\ out = <<>>
    /\ value = <<>>
    /\ result = <<>>
    /\ arrivals = <<>>
    /\ NamesIdle

spec == specs[loaded + 1]

\* if is_openapi(spec): trees.append(build_from_openapi(spec))
ImportOpenApi ==
    /\ pc = "load"
    /\ loaded < Len(specs)
    /\ is_openapi(spec)
    /\ IF build_from_openapi(spec).raised
       THEN pc' = "raised" /\ UNCHANGED <<loaded, trees>>
       ELSE /\ trees' = Append(trees, build_from_openapi(spec).tree)
            /\ loaded' = loaded + 1
            /\ pc' = pc
    /\ UNCHANGED <<specs, mergeVars, out, normVars, nameVars>>

\* the Postman branch without its `elif`: taken whenever is_postman holds
ImportPostmanAlways ==
    /\ pc = "load"
    /\ loaded < Len(specs)
    /\ is_postman(spec)
    /\ trees' = Append(trees, build_from_postman(spec))
    /\ loaded' = loaded + 1
    /\ UNCHANGED <<specs, pc, mergeVars, out, normVars, nameVars>>

\* elif is_postman(spec): trees.append(build_from_postman(spec))
ImportPostman ==
    /\ pc = "load"
    /\ loaded < Len(specs)
    /\ ~is_openapi(spec)
    /\ is_postman(spec)
    /\ trees' = Append(trees, build_from_postman(spec))
    /\ loaded' = loaded + 1
    /\ UNCHANGED <<specs, pc, mergeVars, out, normVars, nameVars>>

\* an unsupported document skipped (a `continue` for the `raise`)
UnsupportedSkipped ==
    /\ pc = "load"
    /\ loaded < Len(specs)
    /\ ~is_openapi(spec)
    /\ ~is_postman(spec)
    /\ loaded' = loaded + 1
    /\ UNCHANGED <<specs, pc, trees, mergeVars, out, normVars, nameVars>>

\* else: raise SystemExit("error: unsupported spec format ...")
Unsupported ==
    /\ pc = "load"
    /\ loaded < Len(specs)
    /\ ~is_openapi(spec)
    /\ ~is_postman(spec)
    /\ pc' = "failed"
    /\ UNCHANGED <<specs, loaded, trees, mergeVars, out, normVars, nameVars>>

\* tree = merge_trees(trees), up to its loops: the base URL and the warning
EnterMerge ==
    /\ pc = "load"
    /\ loaded = Len(specs)
    /\ base_url' = MergedBaseUrl(trees)
    /\ warning' = MergeWarning(trees)
    /\ items' = MergeItems(trees)
    /\ resources' = EmptyMerge.resources
    /\ seen_keys' = EmptyMerge.seen_keys
    /\ seen_names' = EmptyMerge.seen_names
    /\ pc' = "merge"
    /\ UNCHANGED <<specs, loaded, trees, out, normVars, nameVars>>

MergeState ==
    [resources |-> resources, seen_keys |-> seen_keys, seen_names |-> seen_names]

\* one iteration of merge_trees' loops: a resource is entered, or one of
\* its operations is merged
MergeNext ==
    /\ pc = "merge"
    /\ items # <<>>
    /\ LET st == MergeStep(MergeState, Head(items))
       IN  /\ resources' = st.resources
           /\ seen_keys' = st.seen_keys
           /\ seen_names' = st.seen_names
    /\ items' = Tail(items)
    /\ UNCHANGED <<specs, loaded, pc, trees, base_url, warning, out, normVars, nameVars>>

\* merge_trees returns the sorted tree and main dumps it to the output file
WriteOut ==
    /\ pc = "merge"
    /\ items = <<>>
    /\ out' = <<Tree(base_url, resources)>>
    /\ pc' = "done"
    /\ UNCHANGED <<specs, loaded, trees, mergeVars, normVars, nameVars>>

Next ==
    \/ ImportOpenApi
    \/ ImportPostman
    \/ Unsupported
    \/ EnterMerge
    \/ MergeNext
    \/ WriteOut

Spec == Init /\ [][Next]_vars

(***************************************************************************)
(* merge_trees on its own: called on a list of trees                       *)
(***************************************************************************)
TreeOp(name, method, path) ==
    [name |-> name, method |-> method, path |-> path, description |-> Null,
     params |-> <<>>, has_body |-> FALSE]

S_inv  == <<"i", "n", "v">>
S_xget == <<"x", "-", "g", "e", "t">>

SampleOps ==
    { TreeOp(n, S_GET, q) : n \in {S_x, S_xget}, q \in {P_a, P_b} }
    \cup { TreeOp(S_x, S_POST, P_a) }

\* the operation lists of a resource: names distinct within the resource
SampleOpLists ==
    { <<>> } \cup { <<op>> : op \in SampleOps }
    \cup { <<pair[1], pair[2]>> :
              pair \in { pr \in SampleOps \X SampleOps : pr[1].name # pr[2].name } }

SampleUrls == { Null, "", DefaultBaseUrl, SandboxUrl, StagingUrl }

SampleTrees ==
    { [version |-> 1, base_url |-> u,
       resources |-> <<[name |-> S_inv, ops |-> <<TreeOp(S_x, S_GET, P_a)>>]>>]
        : u \in SampleUrls }
    \cup { [version |-> 1, base_url |-> DefaultBaseUrl,
            resources |-> <<[name |-> S_inv, ops |-> ops]>>] : ops \in SampleOpLists }
    \cup { [version |-> 1, base_url |-> SandboxUrl,
            resources |-> <<[name |-> <<"a">>, ops |-> <<TreeOp(S_x, S_GET, P_a)>>],
                            [name |-> S_inv, ops |-> <<TreeOp(S_x, S_GET, P_a)>>]>>],
           [version |-> 1, base_url |-> DefaultBaseUrl, resources |-> <<>>] }

MaxTrees == 2

TreeLists == UNION { [1..n -> SampleTrees] : n \in 0..MaxTrees }

InitMerge ==
    /\ specs = <<>>
    /\ loaded = 0
    /\ pc = "load"
    /\ trees \in TreeLists
    /\ MergeIdle
    /\ out = <<>>
    /\ value = <<>>
    /\ result = <<>>
    /\ arrivals = <<>>
    /\ NamesIdle

NextMerge ==
    \/ EnterMerge
    \/ MergeNext
    \/ WriteOut

SpecMerge == InitMerge /\ [][NextMerge]_vars

(***************************************************************************)
(* normalize_op_name on its own: called on a string                        *)
(***************************************************************************)
\* a lowercase letter, an uppercase letter, a digit, a hyphen, a separator
\* that the first replace() rewrites, and a character of no class
NormChars == {"a", "B", "1", "-", "_", "$"}

MaxLen == 4

NormInputs == UNION { [1..n -> NormChars] : n \in 0..MaxLen }

InitNorm ==
    /\ specs = <<>>
    /\ loaded = 0
    /\ pc = "call"
    /\ trees = <<>>
    /\ MergeIdle
    /\ out = <<>>
    /\ value \in NormInputs
    /\ result = <<>>
    /\ arrivals = <<>>
    /\ NamesIdle

Normalize ==
    /\ pc = "call"
    /\ result' = <<normalize_op_name(value)>>
    /\ pc' = "return"
    /\ UNCHANGED <<specs, loaded, trees, mergeVars, out, value, nameVars>>

NextNorm == Normalize

SpecNorm == InitNorm /\ [][NextNorm]_vars

(***************************************************************************)
(* The collision rules of the two importers on their own: the same         *)
(* (derived name, verb) pairs arrive in one resource of each               *)
(***************************************************************************)
S_x2   == <<"x", "-", "2">>
S_post == <<"p", "o", "s", "t">>

\* derived names are results of normalize_op_name; the verb is the key of
\* the OpenAPI path item, and uppercased the method of the Postman request
SampleArrivals ==
    { [name |-> n, method |-> m] : n \in {S_x, S_xget, S_x2}, m \in {S_get, S_post} }

MaxArrivals == 4

ArrivalLists == UNION { [1..n -> SampleArrivals] : n \in 0..MaxArrivals }

InitNames ==
    /\ specs = <<>>
    /\ loaded = 0
    /\ pc = "names"
    /\ trees = <<>>
    /\ MergeIdle
    /\ out = <<>>
    /\ value = <<>>
    /\ result = <<>>
    /\ arrivals \in ArrivalLists
    /\ NamesIdle

\* one operation arrives: build_from_openapi's lines from `used = ...` to
\* `used.add(op_name)`, and build_from_postman's dedupe(resource, name, method)
Arrive ==
    /\ pc = "names"
    /\ arrivals # <<>>
    /\ LET op_name   == OpenApiUnique(Head(arrivals).name, Head(arrivals).method,
                                      openapi_used)
           candidate == dedupe(postman_used, Head(arrivals).name,
                               Upper(Head(arrivals).method))
       IN  /\ openapi_used' = openapi_used \cup {op_name}
           /\ openapi_names' = Append(openapi_names, op_name)
           /\ postman_used' = postman_used \cup {candidate}
           /\ postman_names' = Append(postman_names, candidate)
    /\ arrivals' = Tail(arrivals)
    /\ UNCHANGED <<specs, loaded, pc, trees, mergeVars, out, normVars>>

NextNames == Arrive

SpecNames == InitNames /\ [][NextNames]_vars

(***************************************************************************)
(* Properties                                                              *)
(***************************************************************************)
\* the trees produced so far: one per document imported, and the merged one
ProducedTrees == Range(trees) \cup Range(out)

OpsIn(tree) == UNION { Range(r.ops) : r \in Range(tree.resources) }

ProducedOps == UNION { OpsIn(t) : t \in ProducedTrees }

UniqueNames(tree) ==
    /\ \A i, j \in DOMAIN tree.resources :
          i # j => tree.resources[i].name # tree.resources[j].name
    /\ \A r \in Range(tree.resources) :
          \A i, j \in DOMAIN r.ops : i # j => r.ops[i].name # r.ops[j].name

\* C1: in every tree an importer or the merge produces, resource names are
\* pairwise distinct and operation names are pairwise distinct within each
\* resource (also in the resources the merge is still building).
C1_UniqueNames ==
    /\ \A t \in ProducedTrees : UniqueNames(t)
    /\ UniqueNames([resources |-> resources])

\* C1 witness: a run is done in which an importer numbered a third colliding
\* name and the merge, on a fourth operation of that name from a later tree,
\* found the verb-suffixed name and the first numbered name both taken.
C1_Witness ==
    /\ pc = "done"
    /\ \E i \in DOMAIN trees : \E r \in Range(trees[i].resources) : Len(r.ops) >= 3
    /\ \E r \in Range(out[1].resources) :
          /\ Len(r.ops) >= 4
          /\ \E i \in DOMAIN trees : \E r2 \in Range(trees[i].resources) :
                /\ r2.name = r.name
                /\ \E op \in Range(r2.ops) : \E op2 \in Range(r.ops) :
                      /\ op2.method = op.method /\ op2.path = op.path
                      /\ op2.name # op.name
                      /\ op2.name = normalize_op_name(op.name \o Hyphen \o IntToStr(3))
                      /\ \A j \in 1..(i - 1) : \A o \in OpsIn(trees[j]) :
                            ~(o.method = op.method /\ o.path = op.path)

\* the names a path holds as {name}, :name or {{name}}
BraceFree(s) == \A k \in DOMAIN s : s[k] \notin {"{", "}"}

Placeholders(path) ==
    LET n == Len(path)
    IN  { SubSeq(path, i + 1, j - 1) : <<i, j>> \in
            { w \in (1..n) \X (1..n) :
                /\ w[2] >= w[1] + 2
                /\ path[w[1]] = "{" /\ path[w[2]] = "}"
                /\ BraceFree(SubSeq(path, w[1] + 1, w[2] - 1)) } }
        \cup
        { SubSeq(path, i + 1, j) : <<i, j>> \in
            { w \in (1..n) \X (1..n) :
                /\ w[2] >= w[1] + 1
                /\ path[w[1]] = ":"
                /\ \A k \in (w[1] + 1)..w[2] : path[k] \in WordChars
                /\ (w[2] = n \/ path[w[2] + 1] \notin WordChars) } }

HasPathParam(op, name) ==
    \E k \in DOMAIN op.params :
        op.params[k].location = "path" /\ op.params[k].name = name

\* C2: every placeholder of an emitted operation's path, written {name},
\* :name or {{name}}, has a path parameter of exactly that name in params.
C2_PathParamsComplete ==
    \A op \in ProducedOps : \A name \in Placeholders(op.path) : HasPathParam(op, name)

\* the operation the merge loop is at has a (method, path) already accepted
\* for its resource
AtDuplicate ==
    /\ pc = "merge"
    /\ items # <<>>
    /\ Head(items).kind = "op"
    /\ <<Head(items).op.method, Head(items).op.path>> \in seen_keys[Head(items).res]

\* what was accepted stays: in the next state of the loop every resource
\* keeps its name and its operations as a prefix, and the tree written
\* holds exactly the resources built
AcceptedKept ==
    IF pc' = "merge"
    THEN \A r \in DOMAIN resources :
            /\ r \in DOMAIN resources'
            /\ resources'[r].name = resources[r].name
            /\ Len(resources'[r].ops) >= Len(resources[r].ops)
            /\ SubSeq(resources'[r].ops, 1, Len(resources[r].ops)) = resources[r].ops
    ELSE Range(out'[1].resources) = Range(resources)

\* C3: when the merge meets an operation whose (method, path) was already
\* accepted for its resource, nothing is inserted and no name is registered;
\* and an accepted operation stays in the output with every field unchanged.
C3_FirstSourceWins ==
    [][ /\ AtDuplicate =>
             /\ resources' = resources
             /\ seen_names' = seen_names
             /\ seen_keys' = seen_keys
        /\ pc = "merge" => AcceptedKept ]_vars

\* C3 witness: two trees were merged, the second presented under another
\* name a (method, path) of the first, and the output holds the first's
\* operation as it was and no operation of the second's name.
C3_Witness ==
    /\ pc = "done"
    /\ Len(trees) = 2
    /\ \E r1 \in Range(trees[1].resources) : \E r2 \in Range(trees[2].resources) :
          /\ r1.name = r2.name
          /\ \E o1 \in Range(r1.ops) : \E o2 \in Range(r2.ops) :
                /\ o1.method = o2.method /\ o1.path = o2.path
                /\ o1.name # o2.name
                /\ \E r \in Range(out[1].resources) :
                      /\ r.name = r1.name
                      /\ o1 \in Range(r.ops)
                      /\ \A o \in Range(r.ops) : o.name # o2.name

\* the distinct non-empty base URLs of the input trees, and the first seen
CandidateUrls == { trees[i].base_url : i \in DOMAIN trees } \ {Null, ""}

FirstSeenAt(u) ==
    CHOOSE i \in DOMAIN trees :
        trees[i].base_url = u /\ \A j \in DOMAIN trees : trees[j].base_url = u => i <= j

ExpectedBaseUrl ==
    IF CandidateUrls = {} THEN DefaultBaseUrl
    ELSE IF Cardinality(CandidateUrls) = 1 THEN CHOOSE u \in CandidateUrls : TRUE
    ELSE IF DefaultBaseUrl \in CandidateUrls THEN DefaultBaseUrl
    ELSE CHOOSE u \in CandidateUrls :
            \A v \in CandidateUrls : FirstSeenAt(u) <= FirstSeenAt(v)

\* C4: the merged base URL is the default host for no candidate, the
\* candidate for one, and for two or more the default host if it is among
\* them and else the first seen; the warning appears exactly for two or
\* more and names every candidate, in first-seen order, and the URL used.
C4_BaseUrl ==
    pc \in {"merge", "done"} =>
        /\ base_url = ExpectedBaseUrl
        /\ pc = "done" => out[1].base_url = ExpectedBaseUrl
        /\ (Cardinality(CandidateUrls) >= 2) <=> (warning # NoWarning)
        /\ warning # NoWarning =>
              /\ Range(warning.urls) = CandidateUrls
              /\ Len(warning.urls) = Cardinality(CandidateUrls)
              /\ \A i, j \in DOMAIN warning.urls :
                    i < j => FirstSeenAt(warning.urls[i]) < FirstSeenAt(warning.urls[j])
              /\ warning.using = base_url

\* C4 witness: several candidates, the default host among them but not the
\* first seen, and the tree written carries the default host.
C4_Witness ==
    /\ pc = "done"
    /\ Cardinality(CandidateUrls) >= 2
    /\ DefaultBaseUrl \in CandidateUrls
    /\ FirstSeenAt(DefaultBaseUrl) > 1
    /\ Truthy(trees[1].base_url)
    /\ out[1].base_url = DefaultBaseUrl
    /\ warning # NoWarning

IsUnsupported(d) == ~is_openapi(d) /\ ~is_postman(d)

FirstUnsupported ==
    CHOOSE i \in DOMAIN specs :
        IsUnsupported(specs[i]) /\ \A j \in DOMAIN specs : IsUnsupported(specs[j]) => i <= j

\* C5: when some document of the run is of neither format, the output file
\* is never written and no merge is begun: the loop does not get past that
\* document, and leaves it only by the fatal error.
C5_NoOutputOnUnsupported ==
    (\E i \in DOMAIN specs : IsUnsupported(specs[i])) =>
        /\ out = <<>>
        /\ pc \in {"load", "failed", "raised"}
        /\ items = <<>> /\ resources = <<>>
        /\ loaded < FirstUnsupported
        /\ pc = "raised" => loaded + 1 < FirstUnsupported
        /\ pc = "failed" => loaded + 1 = FirstUnsupported

\* C5 witness: the run failed on an unsupported document after an earlier
\* document was imported.
C5_Witness ==
    /\ pc = "failed"
    /\ Len(trees) >= 1
    /\ IsUnsupported(specs[loaded + 1])
    /\ out = <<>>

\* C6: no operation's params holds two entries of one (location, name).
C6_NoDuplicateParams ==
    \A op \in ProducedOps :
        \A i, j \in DOMAIN op.params :
            i # j => ~(/\ op.params[i].location = op.params[j].location
                       /\ op.params[i].name = op.params[j].name)

\* C7 as claimed: has_body is true only on POST, PUT and PATCH operations.
C7_BodyOnlyOnBodyVerbs ==
    \A op \in ProducedOps : op.has_body => op.method \in BodyMethods

\* the request items of a Postman item list, at any depth
RECURSIVE AllRequests(_)
AllRequests(list) ==
    IF list = <<>> THEN {}
    ELSE (IF "item" \in DOMAIN list[1] THEN AllRequests(list[1].item) ELSE {list[1]})
         \cup AllRequests(Tail(list))

\* the source document declares a body for the operation
OpenApiDeclaresBody(d, op) ==
    \E pi \in Range(GetOr(d, "paths", <<>>)) :
        /\ pi.path = op.path
        /\ \E m \in Range(pi.methods) :
              Upper(m.method) = op.method /\ m.details.requestBody

PostmanDeclaresBody(d, op) ==
    \E it \in AllRequests(GetOr(d, "item", <<>>)) :
        /\ build_path(it.request.url) = op.path
        /\ Upper(IF it.request.method # <<>> THEN it.request.method ELSE Get) = op.method
        /\ it.request.mode \notin {Null, "none"}

\* C7 amended: has_body is true only when the source declares a body; on an
\* operation imported from a Postman collection, only when moreover the
\* method is POST, PUT or PATCH (an OpenAPI operation that declares a
\* request body has has_body true whatever its verb); and the merge copies
\* has_body from an input operation of the same method and path.
C7_BodyOnlyWhenDeclared ==
    /\ \A i \in DOMAIN trees : \A op \in OpsIn(trees[i]) :
          op.has_body =>
              IF is_openapi(specs[i])
              THEN OpenApiDeclaresBody(specs[i], op)
              ELSE op.method \in BodyMethods /\ PostmanDeclaresBody(specs[i], op)
    /\ \A t \in Range(out) : \A op \in OpsIn(t) :
          op.has_body =>
              \E i \in DOMAIN trees : \E o \in OpsIn(trees[i]) :
                  o.method = op.method /\ o.path = op.path /\ o.has_body

\* C7 witness: a tree was written that holds an OpenAPI operation with a
\* body on a verb other than POST, PUT, PATCH, merged with a Postman tree
\* in which a POST request has a body and a GET request that declared one
\* has none.
C7_Witness ==
    /\ pc = "done"
    /\ \E op \in OpsIn(out[1]) : op.has_body /\ op.method \notin BodyMethods
    /\ \E i \in DOMAIN trees :
          /\ ~is_openapi(specs[i])
          /\ \E op \in OpsIn(trees[i]) : op.has_body
          /\ \E it \in AllRequests(specs[i].item) :
                /\ Upper(it.request.method) = Get
                /\ it.request.mode = "raw"
                /\ \E op \in OpsIn(trees[i]) :
                      op.name = normalize_op_name(it.name) /\ ~op.has_body

\* C8: every operation's path starts with '/'.
C8_PathStartsWithSlash ==
    \A op \in ProducedOps : op.path # <<>> /\ op.path[1] = "/"

UpperVerbs == { Upper(v) : v \in Verbs }

\* C9: every operation's method is one of the seven uppercase verbs.
C9_MethodIsVerb ==
    \A op \in ProducedOps : op.method \in UpperVerbs

\* lowercase alphanumeric tokens separated by single hyphens
IsCanonical(s) ==
    /\ s # <<>>
    /\ \A k \in DOMAIN s : s[k] \in LowerChars \cup DigitChars \cup {"-"}
    /\ s[1] # "-" /\ s[Len(s)] # "-"
    /\ \A k \in 1..(Len(s) - 1) : ~(s[k] = "-" /\ s[k + 1] = "-")

IsAlnum(c) == c \in AlnumChars
AlnumOf(s) == SelectSeq(s, IsAlnum)

\* C10: normalize_op_name returns a non-empty string of lowercase
\* alphanumeric tokens separated by single hyphens, with no hyphen first or
\* last; it is the literal "call" when the argument holds no letter or digit
\* (the normalised result would be empty), and otherwise it holds the
\* argument's letters and digits, lowercased and in order.
C10_Normalized ==
    pc = "return" =>
        /\ IsCanonical(result[1])
        /\ AlnumOf(value) = <<>> => result[1] = Call
        /\ AlnumOf(value) # <<>> => AlnumOf(result[1]) = Lower(AlnumOf(value))

\* C10 witness: normalize_op_name has returned on an argument that starts
\* and ends with separators and holds a camel-case boundary.
C10_Witness ==
    /\ pc = "return"
    /\ Len(value) >= 4
    /\ value[1] \notin AlnumChars
    /\ value[Len(value)] \notin AlnumChars
    /\ \E k \in 1..(Len(value) - 1) :
          value[k] \in LowerChars \cup DigitChars /\ value[k + 1] \in UpperChars
    /\ Contains(result[1], Hyphen)

\* C11: on the same sequence of (derived name, verb) pairs arriving in one
\* resource, the OpenAPI importer and the Postman importer give the same
\* sequence of final operation names, the third and later colliding ones
\* included.
C11_SameNames ==
    openapi_names = postman_names

\* the operations of an OpenAPI document that declare no tags: the pairs
\* <<path key, method key>> the importer does not skip
Untagged(d) ==
    { <<pi.path, m.method>> : <<pi, m>> \in
        { w \in Range(GetOr(d, "paths", <<>>))
                 \X UNION { Range(q.methods) : q \in Range(GetOr(d, "paths", <<>>)) } :
            /\ w[2] \in Range(w[1].methods)
            /\ Lower(w[2].method) \in Verbs
            /\ w[2].details.tags = <<>> } }

\* C12: the OpenAPI importer places an operation that declares no tags in
\* the resource named by the kebab-case of the first non-empty segment of
\* its path key, or in "root" when there is none, whatever the path key
\* (the import of such a document does not fail).
C12_ResourceFromFirstSegment ==
    /\ pc # "raised"
    /\ \A i \in DOMAIN trees :
          is_openapi(specs[i]) =>
              \A u \in Untagged(specs[i]) :
                  \E r \in Range(trees[i].resources) :
                      /\ r.name = camel_to_kebab(FirstSegment(u[1]))
                      /\ \E op \in Range(r.ops) :
                            op.path = u[1] /\ op.method = Upper(u[2])

\* C13: every operation of the first tree is in the merged output, in its
\* resource and under its name; and the merge of a single tree returns that
\* tree's resources and operations.
C13_FirstTreeKept ==
    (pc = "done" /\ trees # <<>>) =>
        /\ \A r \in Range(trees[1].resources) :
              \E r2 \in Range(out[1].resources) :
                  /\ r2.name = r.name
                  /\ Len(r2.ops) >= Len(r.ops)
                  /\ SubSeq(r2.ops, 1, Len(r.ops)) = r.ops
        /\ Len(trees) = 1 => out[1].resources = trees[1].resources

\* C14: every document is imported once, by the OpenAPI importer when
\* is_openapi holds of it, whether or not is_postman holds too, and by the
\* Postman importer otherwise; the tree of a document of both formats holds
\* operations of its path items only.
C14_OpenApiFirst ==
    /\ pc \in {"load", "failed", "raised"} => Len(trees) = loaded
    /\ Len(trees) <= Len(specs)
    /\ \A i \in DOMAIN trees :
          /\ is_openapi(specs[i]) =>
                /\ ~build_from_openapi(specs[i]).raised
                /\ trees[i] = build_from_openapi(specs[i]).tree
                /\ \A op \in OpsIn(trees[i]) :
                      \E pi \in Range(GetOr(specs[i], "paths", <<>>)) :
                          /\ pi.path = op.path
                          /\ \E m \in Range(pi.methods) : Upper(m.method) = op.method
          /\ ~is_openapi(specs[i]) =>
                is_postman(specs[i]) /\ trees[i] = build_from_postman(specs[i])

\* C14 witness: a run over one document that satisfies both detectors is
\* done; its Postman items would have produced operations, and none of
\* them is in the tree imported or in the tree written.
C14_Witness ==
    /\ pc = "done"
    /\ Len(specs) = 1
    /\ is_openapi(specs[1]) /\ is_postman(specs[1])
    /\ OpsIn(trees[1]) # {}
    /\ OpsIn(build_from_postman(specs[1])) # {}
    /\ \A op \in OpsIn(build_from_postman(specs[1])) :
          \A o \in OpsIn(trees[1]) \cup OpsIn(out[1]) :
              ~(o.method = op.method /\ o.path = op.path) /\ o.name # op.name

=============================================================================
